---------------------------- MODULE Spec2Model ----------------------------
(***************************************************************************)
(* Model of the R12 classification pipeline:                               *)
(*   scripts/classify_context.py  classify_context                         *)
(*   scripts/convert_pdf.py       pdf_to_text, extract_first_n_pages       *)
(*   scripts/classify_context.py  main, its own command line               *)
(*   main.py                      the command-line entry point             *)
(*   streamlit_app.py             the interactive entry point              *)
(*   scripts/ocr.py               ocr_pdf_to_text and its helpers          *)
(*                                                                         *)
(* Five specifications share the module:                                   *)
(*   Spec          one call of classify_context on an arbitrary model      *)
(*                 response (JSON text, modelled at the level of members   *)
(*                 and the separators between them);                       *)
(*   PipelineSpec  one run of an entry point (main.py, streamlit_app.py or *)
(*                 classify_context.py) on an arbitrary document;          *)
(*   OcrSpec       calls of ocr_pdf_to_text, one after the other, in one   *)
(*                 working directory;                                      *)
(*   ConcurrentOcrSpec  two calls of ocr_pdf_to_text at the same time in   *)
(*                 one working directory;                                  *)
(*   TaxonomySpec  the taxonomy load at import of classify_context.py, on  *)
(*                 an arbitrary definitions.json.                          *)
(***************************************************************************)
EXTENDS Integers, Sequences, FiniteSets, TLC

VARIABLES
    pc,           \* position inside classify_context
    content,      \* chat_resp.choices[0].message.content (raw model output)
    data,         \* the dict built by json.loads in the except branch
    repaired,     \* TRUE once the re.sub repair has been applied
    outcome,      \* what classify_context returned or raised
    modelCalls,   \* number of client.chat.completions.create calls
    entry,        \* which entry point runs: "cli" or "app"
    ppc,          \* position inside the entry point's main()
    files,        \* sys.argv[1] (one file) or uploaded_files
    idx,          \* the file being processed (index into files)
    text_content, \* main()'s text_content
    result,       \* main()'s result: the outcome of the classify_context call
    handed,       \* the texts passed to classify_context, in call order
    pagesRead,    \* <<file, page>> read by page.get_text() or rendered for OCR
    ocrCalls,     \* the files ocr_pdf_to_text was called for, in call order
    reported,     \* what was printed or shown, in order
    session_state,\* st.session_state: entries [key, text, result]
    reruns,       \* script reruns of the interactive app so far
    opc,          \* per worker: position inside ocr_pdf_to_text
    job,          \* per worker: the arguments of its ocr_pdf_to_text call
    nextPage,     \* per worker: page_idx of the ocr_images loop
    nextRes,      \* per worker: res_idx of the ocr_images loop
    listing,      \* per worker: the file names a glob or rmtree still has to visit
    todo,         \* per worker: ocr_pdf_to_text calls still to make
    made,         \* per worker: folders its call ran os.makedirs on
    ocr_text,     \* per worker: the text its call collated
    pages_folders,\* the existing <base>_pages folders, by document
    img_out,      \* <cwd>/ocr_images: [exists, files]
    json_out,     \* <cwd>/ocr_json: [exists, files]
    definitions_json, \* scripts/definitions.json as found on disk
    imported      \* outcome of importing scripts/classify_context.py

cvars == <<pc, content, data, repaired, outcome, modelCalls>>
pvars == <<entry, ppc, files, idx, text_content, result, handed, pagesRead,
           ocrCalls, reported, session_state, reruns>>
ovars == <<opc, job, nextPage, nextRes, listing, todo, made, ocr_text,
           pages_folders, img_out, json_out>>
tvars == <<definitions_json, imported>>
vars  == <<pc, content, data, repaired, outcome, modelCalls,
           entry, ppc, files, idx, text_content, result, handed, pagesRead,
           ocrCalls, reported, session_state, reruns,
           opc, job, nextPage, nextRes, listing, todo, made, ocr_text,
           pages_folders, img_out, json_out, definitions_json, imported>>

---------------------------------------------------------------------------
(* Bounds of the model.                                                    *)

\* longest key_themes list a model response carries
MaxThemes == 4
\* most syntax defects (missing commas, missing closing brace) in a response
MaxDefects == 1
\* most pages of an input PDF
MaxPages == 16
\* most words of an input text file
MaxWords == 3002
\* most files uploaded to the interactive app at once
MaxFiles == 2
\* most reruns of the interactive app's script
MaxReruns == 1

---------------------------------------------------------------------------
(* JSON values.  Every value is a record of the same shape so that values  *)
(* of different JSON types can be compared: t is the JSON type, s the      *)
(* text of a string, l the elements of a list.                             *)

JStr(s)  == [t |-> "str",  s |-> s,  l |-> <<>>]
JNull    == [t |-> "null", s |-> "", l |-> <<>>]
JNum     == [t |-> "num",  s |-> "", l |-> <<>>]
JList(l) == [t |-> "list", s |-> "", l |-> l]
\* marks a member left out of the response; never a value of a member
Absent   == [t |-> "absent", s |-> "", l |-> <<>>]

---------------------------------------------------------------------------
(* The taxonomy.                                                           *)

\* class Category(Enum): the values of Category._value2member_map_
Category ==
    {"Contract", "Litigation", "Regulatory", "Financial", "Statutory",
     "Email", "other"}

\* cfg["subcategories"] of definitions.json: category -> listed subcategories
SUBCATEGORIES ==
    [cat \in Category |->
        CASE cat = "Contract"   -> <<"Trust Agreement", "Employment Agreement">>
          [] cat = "Litigation" -> <<"Discovery Request", "Complaint">>
          [] cat = "Regulatory" -> <<"Compliance Report">>
          [] cat = "Financial"  -> <<"Financial Statement">>
          [] cat = "Statutory"  -> <<"Statute">>
          [] cat = "Email"      -> <<"Internal Communication">>
          [] cat = "other"      -> <<"other">>]

Range(seq) == {seq[i] : i \in 1..Len(seq)}

\* SubcategoryEnumMap[cat_name]: the values of the Enum built from the
\* subcategories listed under cat_name
SubcategoryEnumMap == [cat \in DOMAIN SUBCATEGORIES |-> Range(SUBCATEGORIES[cat])]

\* OtherSubcategory.other
OtherSubcategory_other == "other"

---------------------------------------------------------------------------
(* Model responses.  A response is JSON text, modelled as its top-level    *)
(* value: an object is the sequence of its members <<key, value>>, the     *)
(* separator written after each member but the last, and whether the       *)
(* closing brace was written.  Lists inside a member are well formed.      *)

\* what stands between two members: a comma, whitespace holding a newline
\* but no comma, or blanks only
SepKinds == {"comma", "newline", "space"}

Themes == <<"theme 1", "theme 2", "theme 3", "theme 4", "theme 5", "theme 6">>

CategoryValues ==
    {JStr(c) : c \in Category} \cup {JStr("Bogus"), JNull, JList(<<>>), Absent}

SubcategoryValues ==
    {JStr(s) : s \in UNION {SubcategoryEnumMap[c] : c \in Category}}
        \cup {JStr("Bogus"), JNull, JList(<<>>), Absent}

SummaryValues == {JStr("A summary."), JNum, Absent}

KeyThemesValues ==
    {JList([i \in 1..n |-> JStr(Themes[i])]) : n \in 0..MaxThemes}
        \cup {JList(<<JStr(Themes[1]), JNum, JStr(Themes[3])>>),
              JStr(Themes[1]), Absent}

Members(c, s, m, k) ==
    SelectSeq(<< <<"category", c>>, <<"subcategory", s>>,
                 <<"summary", m>>, <<"key_themes", k>> >>,
              LAMBDA p : p[2] # Absent)

Defects(seps, closed) ==
    Cardinality({i \in DOMAIN seps : seps[i] # "comma"})
        + (IF closed THEN 0 ELSE 1)

\* the separators and closing of an object of n members, with at most
\* MaxDefects defects
Syntaxes(n) ==
    {x \in [1..(IF n = 0 THEN 0 ELSE n - 1) -> SepKinds] \X BOOLEAN :
        Defects(x[1], x[2]) <= MaxDefects}

ObjectResponse(members, seps, closed) ==
    [top |-> "object", members |-> members, seps |-> seps, closed |-> closed]

\* well-formed JSON text whose top-level value is a list, not an object
ArrayResponse ==
    [top |-> "array", members |-> <<>>, seps |-> <<>>, closed |-> TRUE]

NoContent == [top |-> "none", members |-> <<>>, seps |-> <<>>, closed |-> TRUE]

---------------------------------------------------------------------------
(* Parsing.                                                                *)

\* the text is well-formed JSON: every member but the last is followed by
\* a comma and the object is closed
WellFormed(c) ==
    /\ c.closed
    /\ \A i \in DOMAIN c.seps : c.seps[i] = "comma"

\* json.loads(content): the members of the object, or a failure
\* (json.JSONDecodeError)
json_loads(c) ==
    IF WellFormed(c)
    THEN [ok |-> TRUE, top |-> c.top, members |-> c.members]
    ELSE [ok |-> FALSE, top |-> c.top, members |-> <<>>]

\* re.sub(r'"\s*\n\s*"', r'",\n    "', content): a comma goes in wherever a
\* closing quote is followed, across whitespace holding a newline, by an
\* opening quote.  A key opens with a quote; a value closes with one only
\* when it is a string.
repair(c) ==
    [c EXCEPT !.seps =
        [i \in DOMAIN c.seps |->
            IF c.seps[i] = "newline" /\ c.members[i][2].t = "str"
            THEN "comma" ELSE c.seps[i]]]

\* dict.get(key, default)
Get(members, key, default) ==
    IF \E i \in DOMAIN members : members[i][1] = key
    THEN LET i == CHOOSE j \in DOMAIN members : members[j][1] = key
         IN  members[i][2]
    ELSE default

\* summary: str
IsStrField(v) == v.t = "str"

\* mutant of IsKeyThemesField: the min_items / max_items bounds are dropped
IsKeyThemesField_unbounded(v) ==
    /\ v.t = "list"
    /\ \A i \in DOMAIN v.l : v.l[i].t = "str"

\* key_themes: list[str] = Field(..., min_items=3, max_items=3)
IsKeyThemesField(v) ==
    /\ v.t = "list"
    /\ Len(v.l) >= 3
    /\ Len(v.l) <= 3
    /\ \A i \in DOMAIN v.l : v.l[i].t = "str"

StrList(v) == [i \in DOMAIN v.l |-> v.l[i].s]

\* one member of the ClassificationResult union accepts the pair: the
\* category is that model's Literal and the subcategory a value of its Enum
UnionAccepts(cat, sub) ==
    /\ cat.t = "str"
    /\ cat.s \in Category
    /\ sub.t = "str"
    /\ sub.s \in SubcategoryEnumMap[cat.s]

NoResult == [category |-> "", subcategory |-> "", summary |-> "",
             key_themes |-> <<>>]

Returned(via, res) == [kind |-> "return", via |-> via, error |-> "",
                       result |-> res]
Raised(error) == [kind |-> "raise", via |-> "", error |-> error,
                  result |-> NoResult]
Pending == [kind |-> "pending", via |-> "", error |-> "", result |-> NoResult]

\* mutant of validate_json: category and subcategory are plain strings,
\* not checked against the taxonomy
validate_json_unchecked(c) ==
    LET j   == json_loads(c)
        cat == Get(j.members, "category", Absent)
        sub == Get(j.members, "subcategory", Absent)
        sm  == Get(j.members, "summary", Absent)
        kt  == Get(j.members, "key_themes", Absent)
    IN  IF /\ j.ok
           /\ j.top = "object"
           /\ cat.t = "str"
           /\ sub.t = "str"
           /\ IsStrField(sm)
           /\ IsKeyThemesField(kt)
        THEN Returned("validated",
                      [category |-> cat.s, subcategory |-> sub.s,
                       summary |-> sm.s, key_themes |-> StrList(kt)])
        ELSE Raised("ValidationError")

\* TypeAdapter(ClassificationResult).validate_json(content)
validate_json(c) ==
    LET j   == json_loads(c)
        cat == Get(j.members, "category", Absent)
        sub == Get(j.members, "subcategory", Absent)
        sm  == Get(j.members, "summary", Absent)
        kt  == Get(j.members, "key_themes", Absent)
    IN  IF /\ j.ok
           /\ j.top = "object"
           /\ UnionAccepts(cat, sub)
           /\ IsStrField(sm)
           /\ IsKeyThemesField(kt)
        THEN Returned("validated",
                      [category |-> cat.s, subcategory |-> sub.s,
                       summary |-> sm.s, key_themes |-> StrList(kt)])
        ELSE Raised("ValidationError")

\* mutant of OtherClassification: the catch-all result is built with an
\* empty summary instead of the response's
OtherClassification_blank_summary(summary, key_themes) ==
    IF IsStrField(summary) /\ IsKeyThemesField(key_themes)
    THEN Returned("catchall",
                  [category |-> "other",
                   subcategory |-> OtherSubcategory_other,
                   summary |-> "", key_themes |-> StrList(key_themes)])
    ELSE Raised("ValidationError")

\* OtherClassification(category="other", subcategory=OtherSubcategory.other,
\*                     summary=..., key_themes=...)
OtherClassification(summary, key_themes) ==
    IF IsStrField(summary) /\ IsKeyThemesField(key_themes)
    THEN Returned("catchall",
                  [category |-> "other",
                   subcategory |-> OtherSubcategory_other,
                   summary |-> summary.s, key_themes |-> StrList(key_themes)])
    ELSE Raised("ValidationError")

\* a list or dict: cannot be a dict key or a set element
Unhashable(v) == v.t = "list"

\* {member.value for member in SubcategoryEnumMap.get(cat_val, [])}
valid_subs(cat_val) ==
    IF cat_val.t = "str" /\ cat_val.s \in DOMAIN SubcategoryEnumMap
    THEN SubcategoryEnumMap[cat_val.s] ELSE {}

\* cat_val not in Category._value2member_map_ or sub_val not in valid_subs
RouteToOther(cat_val, sub_val) ==
    \/ ~(cat_val.t = "str" /\ cat_val.s \in Category)
    \/ ~(sub_val.t = "str" /\ sub_val.s \in valid_subs(cat_val))

\* lines 332-345: the except branch once data is loaded
fallback(top, members) ==
    LET cat_val == Get(members, "category", JNull)
        sub_val == Get(members, "subcategory", JNull)
    IN  IF top # "object" THEN Raised("AttributeError")
        ELSE IF Unhashable(cat_val) THEN Raised("TypeError")
        ELSE IF ~(cat_val.t = "str" /\ cat_val.s \in Category)
             THEN OtherClassification(Get(members, "summary", JStr("")),
                                      Get(members, "key_themes", JList(<<>>)))
        ELSE IF Unhashable(sub_val) THEN Raised("TypeError")
        ELSE IF RouteToOther(cat_val, sub_val)
             THEN OtherClassification(Get(members, "summary", JStr("")),
                                      Get(members, "key_themes", JList(<<>>)))
        ELSE Raised("RuntimeError")

---------------------------------------------------------------------------
(* classify_context, step by step.                                         *)

\* lines 303-317: the one chat-completion request and its response
CallModel ==
    /\ pc = "start"
    /\ \/ \E c \in CategoryValues, s \in SubcategoryValues,
             m \in SummaryValues, k \in KeyThemesValues :
                \E x \in Syntaxes(Len(Members(c, s, m, k))) :
                    content' = ObjectResponse(Members(c, s, m, k), x[1], x[2])
       \/ content' = ArrayResponse
    /\ modelCalls' = modelCalls + 1
    /\ pc' = "validate"
    /\ UNCHANGED <<data, repaired, outcome, pvars, ovars, tvars>>

\* lines 320-322 and 346: validate_json; return parsed or enter the except
Validate ==
    /\ pc = "validate"
    /\ LET v == validate_json(content)
       IN  IF v.kind = "return"
           THEN /\ outcome' = v
                /\ pc' = "done"
           ELSE /\ outcome' = outcome
                /\ pc' = "load"
    /\ UNCHANGED <<content, data, repaired, modelCalls, pvars, ovars, tvars>>

\* lines 324-329: json.loads, and on JSONDecodeError the repair and a
\* second json.loads whose JSONDecodeError is not caught
Load ==
    /\ pc = "load"
    /\ LET j == json_loads(content)
           f == json_loads(repair(content))
       IN  IF j.ok
           THEN /\ data' = j
                /\ repaired' = FALSE
                /\ outcome' = outcome
                /\ pc' = "route"
           ELSE IF f.ok
           THEN /\ data' = f
                /\ repaired' = TRUE
                /\ outcome' = outcome
                /\ pc' = "route"
           ELSE /\ data' = data
                /\ repaired' = TRUE
                /\ outcome' = Raised("JSONDecodeError")
                /\ pc' = "done"
    /\ UNCHANGED <<content, modelCalls, pvars, ovars, tvars>>

\* lines 331-345: route to other/other or raise
Route ==
    /\ pc = "route"
    /\ outcome' = fallback(data.top, data.members)
    /\ pc' = "done"
    /\ UNCHANGED <<content, data, repaired, modelCalls, pvars, ovars, tvars>>

\* classify_context as a function of the model's response
classify_context(c) ==
    LET v == validate_json(c)
        j == json_loads(c)
        f == json_loads(repair(c))
    IN  IF v.kind = "return" THEN v
        ELSE IF j.ok THEN fallback(j.top, j.members)
        ELSE IF f.ok THEN fallback(f.top, f.members)
        ELSE Raised("JSONDecodeError")

NoData == [ok |-> FALSE, top |-> "none", members |-> <<>>]

---------------------------------------------------------------------------
(* Text.  Words are numbered (which word of which page it is) and every    *)
(* text of the pipeline is made of runs of consecutive words, so a text is *)
(* kept run-length encoded: a sequence of runs [lo, n, sep], the words     *)
(* lo, lo+1, ..., lo+n-1 with the whitespace sep between them, and the     *)
(* whitespace gap between two runs.  A run of no words is an empty piece   *)
(* of text (an empty page).  A list of words is a sequence of [lo, n].     *)

\* ' ' (the separator of ' '.join)
SP == 0
\* "\n"
NL == 1
\* "\n\n", the blank line pdf_to_text puts between pages
BL == 2

\* if word_count > 3000 / words[:3000]
WORD_LIMIT == 3000
\* if word_count < 100
OCR_THRESHOLD == 100
\* extract_first_n_pages(pdf_bytes, n=15), pdf_to_text(..., num_pages=15)
CLI_PAGES == 15
\* extract_first_n_pages(pdf_bytes, n=5), pdf_to_text(..., num_pages=5)
APP_PAGES == 5

Min(a, b) == IF a <= b THEN a ELSE b

Run(lo, n, sep) == [lo |-> lo, n |-> n, sep |-> sep]

Text(runs, gap) == [runs |-> runs, gap |-> gap]

EmptyText == Text(<<>>, SP)

\* str.split(): the whitespace-delimited words, in order
split(text) ==
    LET full == SelectSeq(text.runs, LAMBDA r : r.n > 0)
    IN  [i \in DOMAIN full |-> [lo |-> full[i].lo, n |-> full[i].n]]

\* len(words)
RECURSIVE len(_)
len(words) ==
    IF Len(words) = 0 THEN 0 ELSE words[1].n + len(Tail(words))

\* words[:k]
RECURSIVE slice(_, _)
slice(words, k) ==
    IF k <= 0 \/ Len(words) = 0 THEN <<>>
    ELSE IF words[1].n <= k
         THEN <<words[1]>> \o slice(Tail(words), k - words[1].n)
         ELSE <<[lo |-> words[1].lo, n |-> k]>>

\* sep.join(words)
join(sep, words) ==
    Text([i \in DOMAIN words |-> Run(words[i].lo, words[i].n, sep)], sep)

\* sep.join(texts) of one-run texts
join_texts(sep, runs) == Text(runs, sep)

---------------------------------------------------------------------------
(* Documents.                                                              *)

\* words printed on each page of an input PDF (all pages alike)
PerPageCounts == {0, 19, 20}

TxtWordCounts == {0, 50, WORD_LIMIT, WORD_LIMIT + 1, MaxWords}

\* page counts of the input PDFs: around both page limits
PageCounts == {1, APP_PAGES, APP_PAGES + 1, CLI_PAGES, MaxPages}

\* a text file of the given number of words, one word per line
TxtDocs ==
    {[kind |-> "txt", exists |-> TRUE, corrupt |-> FALSE, words |-> w,
      pages |-> 0, perPage |-> 0, scanned |-> 0] : w \in TxtWordCounts}

\* a PDF: its pages, the words of each page's text layer, and the words a
\* recognizer reads off each page's image
PdfDocs ==
    {[kind |-> "pdf", exists |-> TRUE, corrupt |-> FALSE, words |-> 0,
      pages |-> p, perPage |-> k,
      scanned |-> IF k = 0 THEN 30 ELSE k] :
        p \in PageCounts, k \in PerPageCounts}

\* a text file of 50 words between which are bytes that are not UTF-8
UndecodableTxt ==
    [kind |-> "txt", exists |-> TRUE, corrupt |-> TRUE, words |-> 50,
     pages |-> 0, perPage |-> 0, scanned |-> 0]

\* bytes that fitz.open cannot read as a PDF
CorruptPdf ==
    [kind |-> "pdf", exists |-> TRUE, corrupt |-> TRUE, words |-> 0,
     pages |-> 0, perPage |-> 0, scanned |-> 0]

\* a file with another extension
OtherDoc ==
    [kind |-> "other", exists |-> TRUE, corrupt |-> FALSE, words |-> 0,
     pages |-> 0, perPage |-> 0, scanned |-> 0]

\* a path that names no file
MissingDoc ==
    [kind |-> "pdf", exists |-> FALSE, corrupt |-> FALSE, words |-> 0,
     pages |-> 0, perPage |-> 0, scanned |-> 0]

\* sys.argv[1]
CliDocs ==
    TxtDocs \cup PdfDocs \cup {UndecodableTxt, CorruptPdf, OtherDoc, MissingDoc}

\* sys.argv[1] of scripts/classify_context.py
ClassifyDocs == TxtDocs \cup {UndecodableTxt, OtherDoc, MissingDoc}

\* what st.file_uploader(type=["pdf", "txt"]) lets through
AppDocs == TxtDocs \cup PdfDocs \cup {UndecodableTxt, CorruptPdf}

\* uploaded_file.name: what stands before the extension, and whether the
\* extension is in capitals (.TXT, .PDF); the extension itself, lowercased
\* as in line 42, is the kind of the file
UploadNames ==
    {[base |-> "a", upper |-> FALSE], [base |-> "a", upper |-> TRUE],
     [base |-> "b", upper |-> FALSE]}
\* an uploaded file: its content and its name
Named(d, nm) ==
    [kind |-> d.kind, exists |-> d.exists, corrupt |-> d.corrupt,
     words |-> d.words, pages |-> d.pages, perPage |-> d.perPage,
     scanned |-> d.scanned, base |-> nm.base, upper |-> nm.upper]

\* f.read() / uploaded_file.read().decode("utf-8", errors="ignore"): the
\* file's text, its words 1..d.words one per line (bytes that are not
\* UTF-8 are left out by errors="ignore")
read_text(d) == Text(<<Run(1, d.words, NL)>>, NL)

\* the word at position i of page g's text layer
PageWord(g, i) == g * 1000 + i

\* the word a recognizer reads at position i of page g's image
OcrWord(g, i) == 500000 + g * 1000 + i

\* page.get_text(): the text layer of page g
get_text(pdf, g) == Run(PageWord(g, 1), pdf.perPage, SP)

\* the document fitz.open makes of a file's bytes: pages lists, in order,
\* the pages of the input file that the document holds
OpenPdf(f) ==
    [file |-> f, pages |-> [i \in 1..files[f].pages |-> i],
     perPage |-> files[f].perPage, scanned |-> files[f].scanned,
     corrupt |-> files[f].corrupt]

\* extract_first_n_pages(pdf_bytes, n): for i in range(min(n, len(doc)))
extract_first_n_pages(pdf, n) ==
    [pdf EXCEPT !.pages = [i \in 1..Min(n, Len(pdf.pages)) |-> pdf.pages[i]]]

\* doc[:num_pages]
pages_to_use(pdf, num_pages) ==
    [i \in 1..Min(num_pages, Len(pdf.pages)) |-> pdf.pages[i]]

\* pdf_to_text(pdf_bytes, num_pages):
\* "\n\n".join(page.get_text() for page in doc[:num_pages])
pdf_to_text(pdf, num_pages) ==
    LET use == pages_to_use(pdf, num_pages)
    IN  join_texts(BL, [i \in DOMAIN use |-> get_text(pdf, use[i])])

\* the pages whose get_text() pdf_to_text calls
PagesTouched(pdf, num_pages) ==
    {<<pdf.file, g>> : g \in Range(pages_to_use(pdf, num_pages))}

---------------------------------------------------------------------------
(* scripts/ocr.py: ocr_pdf_to_text step by step, on the file system.       *)
(* Every call is made as main.py makes it, without output_txt, so that     *)
(* out_dir is the working directory, which all calls share.  A             *)
(* <base>_pages folder is named after the PDF, so each document has its    *)
(* own.  A file page<NNN>_reg<MM>.json (or .png) is [page, reg, doc]: its  *)
(* name is <<page, reg>>, its content comes from result reg of page `page` *)
(* of document doc.                                                        *)

\* the processes that call ocr_pdf_to_text
Workers == {1, 2}
\* most pages of a PDF passed to ocr_pdf_to_text
MaxOcrPages == 2
\* most results ocr.predict returns for one page image
MaxRegions == 2
\* most ocr_pdf_to_text calls one process makes, one after the other
MaxCalls == 2

\* the pdf_path of the call a worker is about to make
pdf_path(w) == w * 10 + todo[w]
NoJob == [doc |-> 0, pages |-> 0, regs |-> 0, cleanup |-> TRUE]
\* a folder that does not exist
NoFolder == [exists |-> FALSE, files |-> {}]
\* rec_texts of result r of page g of document d
rec_texts(d, g, r) == [doc |-> d, page |-> g, reg |-> r]

\* the file names of a folder
names(folder) == {<<f.page, f.reg>> : f \in folder.files}
\* the file of that name
file_at(folder, name) ==
    CHOOSE f \in folder.files : <<f.page, f.reg>> = name
\* the decimal digits of n as character codes, zero-padded to the width
RECURSIVE digits(_, _)
digits(n, width) ==
    IF n < 10 /\ width <= 1 THEN <<48 + n>>
    ELSE digits(n \div 10, width - 1) \o <<48 + (n % 10)>>
\* lines 55, 57: f"page{page_idx:03d}_reg{res_idx:02d}" and the dot of the
\* extension, as character codes ('_' is 95, '.' is 46); what comes before
\* and after is the same in every file name of a folder
path(name) == digits(name[1], 3) \o <<95>> \o digits(name[2], 2) \o <<46>>
\* a < b for strings
RECURSIVE before(_, _)
before(a, b) ==
    IF Len(b) = 0 THEN FALSE
    ELSE IF Len(a) = 0 THEN TRUE
    ELSE IF a[1] # b[1] THEN a[1] < b[1]
    ELSE before(Tail(a), Tail(b))
\* the least of a set of file names, as strings
first_name(ns) ==
    CHOOSE n \in ns : \A m \in ns : n = m \/ before(path(n), path(m))
\* sorted(...) of file names
RECURSIVE sorted(_)
sorted(ns) ==
    IF ns = {} THEN <<>>
    ELSE <<first_name(ns)>> \o sorted(ns \ {first_name(ns)})
\* line 66: sorted(glob.glob(os.path.join(json_folder, "*.json")))
sorted_glob(folder) == sorted(names(folder))

\* lines 56, 58: save_to_img / save_to_json write the file of that name
save(folder, d, g, r) ==
    [exists |-> TRUE,
     files  |-> {f \in folder.files : <<f.page, f.reg>> # <<g, r>>}
                    \cup {[page |-> g, reg |-> r, doc |-> d]}]
\* a list without its i-th element
remove_at(s, i) == SubSeq(s, 1, i - 1) \o SubSeq(s, i + 1, Len(s))
\* os.unlink of one file of the folder, if it is (still) there
unlink(folder, name) ==
    [folder EXCEPT !.files = {f \in @ : <<f.page, f.reg>> # name}]
\* os.rmdir, whose failure on a folder that is not empty is ignored
rmdir(folder) == IF folder.files = {} THEN NoFolder ELSE folder

\* lines 61-71 on a folder nothing else writes to: the rec_texts of every
\* JSON file of the folder, by file name
collate_rec_texts_to_string(folder) ==
    [i \in DOMAIN sorted_glob(folder) |->
        LET f == file_at(folder, sorted_glob(folder)[i])
        IN  rec_texts(f.doc, f.page, f.reg)]

\* the files a call on document d (n pages, regs results a page) writes
\* to ocr_images, and to ocr_json
files_of(d, n, regs) ==
    {[page |-> g, reg |-> r, doc |-> d] : g \in 1..n, r \in 1..regs}
\* what ocr_pdf_to_text returns for a document of n pages with regs results
\* a page, in a working directory that has no ocr_json folder and that no
\* other call uses
ocr_text_alone(d, n, regs) ==
    collate_rec_texts_to_string([exists |-> TRUE,
                                 files |-> files_of(d, n, regs)])

\* the call of worker w moves on, or raises
Goto(w, raises, next) ==
    opc' = [opc EXCEPT ![w] = IF raises THEN "raised" ELSE next]

\* a call of ocr_pdf_to_text(pdf_path, cleanup=...) starts
OcrCall(w) ==
    /\ opc[w] \in {"idle", "returned", "raised"}
    /\ todo[w] > 0
    /\ \E n \in 1..MaxOcrPages, r \in 1..MaxRegions, c \in BOOLEAN :
          job' = [job EXCEPT ![w] = [doc |-> pdf_path(w), pages |-> n,
                                     regs |-> r, cleanup |-> c]]
    /\ todo' = [todo EXCEPT ![w] = @ - 1]
    /\ opc' = [opc EXCEPT ![w] = "pdf_to_images"]
    /\ nextPage' = [nextPage EXCEPT ![w] = 1]
    /\ nextRes' = [nextRes EXCEPT ![w] = 1]
    /\ listing' = [listing EXCEPT ![w] = <<>>]
    /\ made' = [made EXCEPT ![w] = {}]
    /\ ocr_text' = [ocr_text EXCEPT ![w] = <<>>]
    /\ UNCHANGED <<pages_folders, img_out, json_out, cvars, pvars, tvars>>

\* lines 21-36 and 88: os.makedirs raises, or the folder is made and then
\* rendering or saving a page raises, or the pages are rendered and saved
pdf_to_images(w) ==
    /\ opc[w] = "pdf_to_images"
    /\ \E made_folder, raises \in BOOLEAN :
          /\ ~made_folder => raises
          /\ pages_folders' = IF made_folder
                              THEN pages_folders \cup {job[w].doc}
                              ELSE pages_folders
          /\ made' = [made EXCEPT ![w] =
                         IF made_folder THEN @ \cup {"pages"} ELSE @]
          /\ Goto(w, raises, "PaddleOCR")
    /\ UNCHANGED <<job, nextPage, nextRes, listing, todo, ocr_text, img_out,
                   json_out, cvars, pvars, tvars>>

\* lines 90-95: the recognizer is built
PaddleOCR(w) ==
    /\ opc[w] = "PaddleOCR"
    /\ \E raises \in BOOLEAN : Goto(w, raises, "makedirs_img_out")
    /\ UNCHANGED <<job, nextPage, nextRes, listing, todo, made, ocr_text,
                   pages_folders, img_out, json_out, cvars, pvars, tvars>>

\* lines 97-101 and 48: os.makedirs(img_out_folder, exist_ok=True)
makedirs_img_out(w) ==
    /\ opc[w] = "makedirs_img_out"
    /\ \E raises \in BOOLEAN :
          /\ Goto(w, raises, "makedirs_json_out")
          /\ img_out' = IF raises THEN img_out
                        ELSE [img_out EXCEPT !.exists = TRUE]
          /\ made' = [made EXCEPT ![w] =
                         IF raises THEN @ ELSE @ \cup {"ocr_images"}]
    /\ UNCHANGED <<job, nextPage, nextRes, listing, todo, ocr_text,
                   pages_folders, json_out, cvars, pvars, tvars>>

\* line 49: os.makedirs(json_out_folder, exist_ok=True)
makedirs_json_out(w) ==
    /\ opc[w] = "makedirs_json_out"
    /\ \E raises \in BOOLEAN :
          /\ Goto(w, raises, "predict")
          /\ json_out' = IF raises THEN json_out
                         ELSE [json_out EXCEPT !.exists = TRUE]
          /\ made' = [made EXCEPT ![w] =
                         IF raises THEN @ ELSE @ \cup {"ocr_json"}]
    /\ UNCHANGED <<job, nextPage, nextRes, listing, todo, ocr_text,
                   pages_folders, img_out, cvars, pvars, tvars>>

\* lines 51-53: ocr.predict on the next page image
predict(w) ==
    /\ opc[w] = "predict"
    /\ \E raises \in BOOLEAN : Goto(w, raises, "save_to_img")
    /\ nextRes' = [nextRes EXCEPT ![w] = 1]
    /\ UNCHANGED <<job, nextPage, listing, todo, made, ocr_text,
                   pages_folders, img_out, json_out, cvars, pvars, tvars>>

\* lines 55-56: res.save_to_img(out_img).  Writing into a folder that
\* another call has removed either raises or makes the folder anew.
save_to_img(w) ==
    /\ opc[w] = "save_to_img"
    /\ \E raises \in BOOLEAN :
          /\ Goto(w, raises, "save_to_json")
          /\ img_out' = IF raises THEN img_out
                        ELSE save(img_out, job[w].doc, nextPage[w],
                                  nextRes[w])
    /\ UNCHANGED <<job, nextPage, nextRes, listing, todo, made, ocr_text,
                   pages_folders, json_out, cvars, pvars, tvars>>

\* lines 57-58: res.save_to_json(out_json), then the next result, the next
\* page, or the end of ocr_images
save_to_json(w) ==
    /\ opc[w] = "save_to_json"
    /\ \E raises \in BOOLEAN :
          /\ json_out' = IF raises THEN json_out
                         ELSE save(json_out, job[w].doc, nextPage[w],
                                   nextRes[w])
          /\ IF raises
             THEN /\ Goto(w, TRUE, "raised")
                  /\ UNCHANGED <<nextPage, nextRes>>
             ELSE IF nextRes[w] < job[w].regs
             THEN /\ Goto(w, FALSE, "save_to_img")
                  /\ nextRes' = [nextRes EXCEPT ![w] = @ + 1]
                  /\ UNCHANGED nextPage
             ELSE /\ Goto(w, FALSE, IF nextPage[w] < job[w].pages
                                    THEN "predict" ELSE "glob")
                  /\ nextPage' = [nextPage EXCEPT ![w] = @ + 1]
                  /\ UNCHANGED nextRes
    /\ UNCHANGED <<job, listing, todo, made, ocr_text, pages_folders,
                   img_out, cvars, pvars, tvars>>

\* where ocr_pdf_to_text goes after line 104
after_collate(w) == IF job[w].cleanup THEN "rmtree_pages" ELSE "returned"

\* lines 104 and 65-66: the JSON files of the folder are listed
glob(w) ==
    /\ opc[w] = "glob"
    /\ listing' = [listing EXCEPT ![w] = sorted_glob(json_out)]
    /\ ocr_text' = [ocr_text EXCEPT ![w] = <<>>]
    /\ Goto(w, FALSE, IF json_out.files = {} THEN after_collate(w)
                      ELSE "open")
    /\ UNCHANGED <<job, nextPage, nextRes, todo, made, pages_folders,
                   img_out, json_out, cvars, pvars, tvars>>

\* lines 67-70: the next listed file is opened and read; open raises when
\* the file is gone, json.load when it does not hold JSON
open(w) ==
    /\ opc[w] = "open"
    /\ LET name == Head(listing[w])
           gone == name \notin names(json_out)
       IN  \E raises \in BOOLEAN :
              /\ gone => raises
              /\ Goto(w, raises, IF Len(listing[w]) = 1
                                 THEN after_collate(w) ELSE "open")
              /\ listing' = [listing EXCEPT ![w] =
                                IF raises THEN @ ELSE Tail(@)]
              /\ ocr_text' = [ocr_text EXCEPT ![w] =
                    IF raises THEN @
                    ELSE Append(@, rec_texts(file_at(json_out, name).doc,
                                             name[1], name[2]))]
    /\ UNCHANGED <<job, nextPage, nextRes, todo, made, pages_folders,
                   img_out, json_out, cvars, pvars, tvars>>

\* lines 111-113: shutil.rmtree(img_folder, ignore_errors=True); no other
\* call uses this folder
rmtree_pages(w) ==
    /\ opc[w] = "rmtree_pages"
    /\ pages_folders' = pages_folders \ {job[w].doc}
    /\ Goto(w, FALSE, "rmtree_img_out")
    /\ UNCHANGED <<job, nextPage, nextRes, listing, todo, made, ocr_text,
                   img_out, json_out, cvars, pvars, tvars>>

\* where shutil.rmtree goes after listing a folder
after_listing(folder, files_next, rmdir_next, skip) ==
    IF ~folder.exists THEN skip
    ELSE IF folder.files = {} THEN rmdir_next ELSE files_next

\* line 113: shutil.rmtree(img_out, ...) lists the folder; the order of
\* os.scandir is not specified: listing holds the files that were listed,
\* and unlink_img_out takes them from it in any order
rmtree_img_out(w) ==
    /\ opc[w] = "rmtree_img_out"
    /\ listing' = [listing EXCEPT ![w] = sorted(names(img_out))]
    /\ Goto(w, FALSE, after_listing(img_out, "unlink_img_out",
                                    "rmdir_img_out", "rmtree_json_out"))
    /\ UNCHANGED <<job, nextPage, nextRes, todo, made, ocr_text,
                   pages_folders, img_out, json_out, cvars, pvars, tvars>>

\* shutil.rmtree(img_out, ...) removes one of the listed files
unlink_img_out(w) ==
    /\ opc[w] = "unlink_img_out"
    /\ \E i \in DOMAIN listing[w] :
          /\ img_out' = unlink(img_out, listing[w][i])
          /\ listing' = [listing EXCEPT ![w] = remove_at(@, i)]
    /\ Goto(w, FALSE, IF Len(listing[w]) = 1 THEN "rmdir_img_out"
                      ELSE "unlink_img_out")
    /\ UNCHANGED <<job, nextPage, nextRes, todo, made, ocr_text,
                   pages_folders, json_out, cvars, pvars, tvars>>

\* shutil.rmtree(img_out, ...) removes the folder itself
rmdir_img_out(w) ==
    /\ opc[w] = "rmdir_img_out"
    /\ img_out' = rmdir(img_out)
    /\ Goto(w, FALSE, "rmtree_json_out")
    /\ UNCHANGED <<job, nextPage, nextRes, listing, todo, made, ocr_text,
                   pages_folders, json_out, cvars, pvars, tvars>>

\* line 113: shutil.rmtree(json_out, ...) lists the folder; listing holds
\* the files that were listed, and unlink_json_out takes them from it in any
\* order
rmtree_json_out(w) ==
    /\ opc[w] = "rmtree_json_out"
    /\ listing' = [listing EXCEPT ![w] = sorted(names(json_out))]
    /\ Goto(w, FALSE, after_listing(json_out, "unlink_json_out",
                                    "rmdir_json_out", "returned"))
    /\ UNCHANGED <<job, nextPage, nextRes, todo, made, ocr_text,
                   pages_folders, img_out, json_out, cvars, pvars, tvars>>

\* shutil.rmtree(json_out, ...) removes one of the listed files
unlink_json_out(w) ==
    /\ opc[w] = "unlink_json_out"
    /\ \E i \in DOMAIN listing[w] :
          /\ json_out' = unlink(json_out, listing[w][i])
          /\ listing' = [listing EXCEPT ![w] = remove_at(@, i)]
    /\ Goto(w, FALSE, IF Len(listing[w]) = 1 THEN "rmdir_json_out"
                      ELSE "unlink_json_out")
    /\ UNCHANGED <<job, nextPage, nextRes, todo, made, ocr_text,
                   pages_folders, img_out, cvars, pvars, tvars>>

\* shutil.rmtree(json_out, ...) removes the folder itself; line 116
rmdir_json_out(w) ==
    /\ opc[w] = "rmdir_json_out"
    /\ json_out' = rmdir(json_out)
    /\ Goto(w, FALSE, "returned")
    /\ UNCHANGED <<job, nextPage, nextRes, listing, todo, made, ocr_text,
                   pages_folders, img_out, cvars, pvars, tvars>>

\* no call of ocr_pdf_to_text is being made
NoCall ==
    /\ opc = [w \in Workers |-> "idle"]
    /\ job = [w \in Workers |-> NoJob]
    /\ nextPage = [w \in Workers |-> 1]
    /\ nextRes = [w \in Workers |-> 1]
    /\ listing = [w \in Workers |-> <<>>]
    /\ todo = [w \in Workers |-> 0]
    /\ made = [w \in Workers |-> {}]
    /\ ocr_text = [w \in Workers |-> <<>>]
    /\ pages_folders = {}

\* no call of ocr_pdf_to_text is made, in a clean working directory
OIdle ==
    /\ NoCall
    /\ img_out = NoFolder
    /\ json_out = NoFolder

\* the document of an earlier call in the working directory
EarlierDoc == 12
\* ocr_json as an earlier call may have left it: not there, or with the
\* files of that call's pages
LeftFolders ==
    {NoFolder} \cup
    {[exists |-> TRUE, files |-> files_of(EarlierDoc, n, 1)] :
        n \in 1..MaxOcrPages}
\* the words in the rec_texts of a file left by an earlier call
LeftWords == 30

\* the recognized words of one JSON file, as a run of words: those of the
\* file's share of its page of this PDF, or those of the earlier document
rec_words(pdf, regs, rec) ==
    IF rec.doc = pdf.file
    THEN LET from == ((rec.reg - 1) * pdf.scanned) \div regs
             upto == (rec.reg * pdf.scanned) \div regs
         IN  [lo |-> OcrWord(pdf.pages[rec.page], from + 1), n |-> upto - from]
    ELSE [lo |-> OcrWord(100 * rec.doc + rec.page, 1), n |-> LeftWords]

\* ocr_json once ocr_images has written the files of this PDF to it
json_out_after(pdf, regs, folder) ==
    [exists |-> TRUE,
     files  |-> {f \in folder.files :
                    <<f.page, f.reg>> \notin
                        names([exists |-> TRUE,
                               files |-> files_of(pdf.file, Len(pdf.pages),
                                                  regs)])}
                \cup files_of(pdf.file, Len(pdf.pages), regs)]

\* ocr_pdf_to_text(pdf_path) called by one process: every page is rendered
\* and recognized, its results are written to ocr_json, and the rec_texts
\* of every JSON file then in ocr_json are joined with "\n" by file name
ocr_pdf_to_text(pdf, regs, folder) ==
    LET recs == collate_rec_texts_to_string(json_out_after(pdf, regs, folder))
    IN  join(NL, [i \in DOMAIN recs |-> rec_words(pdf, regs, recs[i])])

\* the pages ocr_pdf_to_text renders
PagesRendered(pdf) == {<<pdf.file, g>> : g \in Range(pdf.pages)}

---------------------------------------------------------------------------
(* The model's answers during a run of an entry point: a valid             *)
(* classification (returned) and a truncated one (JSONDecodeError).        *)

ThreeThemes == JList(<<JStr(Themes[1]), JStr(Themes[2]), JStr(Themes[3])>>)

Commas == <<"comma", "comma", "comma">>

PipelineResponses ==
    {ObjectResponse(Members(JStr("Litigation"), JStr("Complaint"),
                            JStr("A summary."), ThreeThemes), Commas, TRUE),
     ObjectResponse(Members(JStr("Litigation"), JStr("Complaint"),
                            JStr("A summary."), ThreeThemes), Commas, FALSE)}

Say(msg) == Append(reported, [msg |-> msg, file |-> idx])

Hand(text) == Append(handed, [file |-> idx, text |-> text])

---------------------------------------------------------------------------
(* main.py                                                                 *)

\* main.py never assigns pdf_bytes: the name is unbound when line 53 reads
\* it, and reading it raises NameError
pdf_bytes_bound == FALSE

\* lines 10-20 and 96-98: arguments, file existence, extension
CliStart ==
    /\ entry = "cli"
    /\ ppc = "start"
    /\ IF Len(files) = 0
       THEN /\ reported' = Say("Usage")
            /\ ppc' = "exited"
            /\ idx' = idx
       ELSE /\ idx' = 1
            /\ IF ~files[1].exists
               THEN /\ reported' = Append(reported,
                                     [msg |-> "File not found", file |-> 1])
                    /\ ppc' = "exited"
               ELSE IF files[1].kind = "txt"
               THEN /\ reported' = reported
                    /\ ppc' = "cli_txt"
               ELSE IF files[1].kind = "pdf"
               THEN /\ reported' = reported
                    /\ ppc' = "cli_pdf"
               ELSE /\ reported' = Append(reported,
                                     [msg |-> "Unsupported file type",
                                      file |-> 1])
                    /\ ppc' = "exited"
    /\ UNCHANGED <<entry, files, text_content, result, handed, pagesRead,
                   ocrCalls, session_state, reruns, cvars, ovars, tvars>>

\* lines 22-33: read the text file, count its words, truncate; f.read()
\* raises UnicodeDecodeError on bytes that are not UTF-8, which nothing
\* catches
CliTxtExtract ==
    /\ entry = "cli"
    /\ ppc = "cli_txt"
    /\ IF files[idx].corrupt
       THEN /\ reported' = Say("UnicodeDecodeError")
            /\ ppc' = "crashed"
            /\ UNCHANGED text_content
       ELSE /\ LET text  == read_text(files[idx])
                   words == split(text)
               IN  text_content' =
                       IF len(words) > WORD_LIMIT
                       THEN join(SP, slice(words, WORD_LIMIT))
                       ELSE text
            /\ ppc' = "cli_classify"
            /\ UNCHANGED reported
    /\ UNCHANGED <<entry, files, idx, result, handed, pagesRead, ocrCalls,
                   session_state, reruns, cvars, ovars, tvars>>

\* lines 34-46: classify the text, print the result or the failure, exit
CliTxtClassify ==
    /\ entry = "cli"
    /\ ppc = "cli_classify"
    /\ handed' = Hand(text_content)
    /\ \E r \in PipelineResponses :
        /\ result' = classify_context(r)
        /\ reported' = IF classify_context(r).kind = "return"
                       THEN Say("Classification Results")
                       ELSE Say("Classification failed")
    /\ ppc' = "exited"
    /\ UNCHANGED <<entry, files, idx, text_content, pagesRead, ocrCalls,
                   session_state, reruns, cvars, ovars, tvars>>

\* lines 47-95: the PDF branch.  Line 53 reads pdf_bytes first.
CliPdf ==
    /\ entry = "cli"
    /\ ppc = "cli_pdf"
    /\ IF ~pdf_bytes_bound
       THEN /\ reported' = Say("NameError: pdf_bytes")
            /\ ppc' = "crashed"
            /\ UNCHANGED <<text_content, result, handed, pagesRead, ocrCalls,
                           img_out, json_out>>
       ELSE IF files[idx].corrupt
       THEN /\ reported' = Say("Exception: extract_first_n_pages")
            /\ ppc' = "crashed"
            /\ UNCHANGED <<text_content, result, handed, pagesRead, ocrCalls,
                           img_out, json_out>>
       ELSE LET first5 == extract_first_n_pages(OpenPdf(idx), CLI_PAGES)
                direct == pdf_to_text(first5, CLI_PAGES)
                low    == len(split(direct)) < OCR_THRESHOLD
            IN  /\ pagesRead' = pagesRead
                        \cup PagesTouched(first5, CLI_PAGES)
                        \cup (IF low THEN PagesRendered(first5) ELSE {})
                /\ ocrCalls' = IF low THEN Append(ocrCalls, idx) ELSE ocrCalls
                /\ \E regs \in 1..MaxRegions, raises \in BOOLEAN :
                     IF low /\ raises
                     THEN /\ reported' = Say("Exception: ocr_pdf_to_text")
                          /\ ppc' = "crashed"
                          /\ img_out' = json_out_after(first5, regs, img_out)
                          /\ json_out' = json_out_after(first5, regs, json_out)
                          /\ UNCHANGED <<text_content, result, handed>>
                     ELSE LET text == IF low
                                      THEN ocr_pdf_to_text(first5, regs,
                                                           json_out)
                                      ELSE direct
                          IN  /\ img_out' = IF low THEN NoFolder ELSE img_out
                              /\ json_out' = IF low THEN NoFolder
                                             ELSE json_out
                              /\ text_content' = text
                              /\ handed' = Hand(text)
                              /\ \E r \in PipelineResponses :
                                  /\ result' = classify_context(r)
                                  /\ reported' =
                                        IF classify_context(r).kind = "return"
                                        THEN Say("Classification Results")
                                        ELSE Say("Classification failed")
                              /\ ppc' = "exited"
    /\ UNCHANGED <<entry, files, idx, session_state, reruns, cvars, tvars,
                   opc, job, nextPage, nextRes, listing, todo, made,
                   ocr_text, pages_folders>>

\* scripts/classify_context.py, lines 348-364: main() reads the file named
\* on its command line, whatever its extension; what open or read raises
\* is caught and printed
ClassifyMainRead ==
    /\ entry = "classify_context"
    /\ ppc = "start"
    /\ IF Len(files) = 0
       THEN /\ reported' = Say("Usage")
            /\ ppc' = "exited"
            /\ UNCHANGED <<idx, text_content>>
       ELSE /\ idx' = 1
            /\ IF ~files[1].exists \/ files[1].corrupt
               THEN /\ reported' = Append(reported,
                                     [msg |-> "Error reading", file |-> 1])
                    /\ ppc' = "exited"
                    /\ UNCHANGED text_content
               ELSE /\ text_content' = read_text(files[1])
                    /\ ppc' = "classify"
                    /\ UNCHANGED reported
    /\ UNCHANGED <<entry, files, result, handed, pagesRead, ocrCalls,
                   session_state, reruns, cvars, ovars, tvars>>

\* scripts/classify_context.py, lines 366-376: main() classifies the whole
\* text and prints the result; only ValidationError is caught
ClassifyMainClassify ==
    /\ entry = "classify_context"
    /\ ppc = "classify"
    /\ handed' = Hand(text_content)
    /\ \E r \in PipelineResponses :
        /\ result' = classify_context(r)
        /\ IF classify_context(r).kind = "return"
           THEN /\ reported' = Say("Classification Results")
                /\ ppc' = "exited"
           ELSE IF classify_context(r).error = "ValidationError"
           THEN /\ reported' = Say("Failed to validate LLM response")
                /\ ppc' = "exited"
           ELSE /\ reported' = Say(classify_context(r).error)
                /\ ppc' = "crashed"
    /\ UNCHANGED <<entry, files, idx, text_content, pagesRead, ocrCalls,
                   session_state, reruns, cvars, ovars, tvars>>

---------------------------------------------------------------------------
(* streamlit_app.py                                                        *)

\* streamlit_app.py never assigns selected_cat (nor selected_subcat): line
\* 143 reads it for every displayed file, and reading it raises NameError
selected_cat_bound == FALSE

\* line 36: file_key = uploaded_file.name
file_key(i) ==
    [base |-> files[i].base, ext |-> files[i].kind, upper |-> files[i].upper]

Cached(i) == \E e \in session_state : e.key = file_key(i)

CacheEntry(i) == CHOOSE e \in session_state : e.key = file_key(i)

\* lines 34-42, 50-52, 64-66 and 169-170: take the next uploaded file and
\* choose its branch
AppNextFile ==
    /\ entry = "app"
    /\ ppc = "app_loop"
    /\ IF idx = Len(files)
       THEN /\ ppc' = "done"
            /\ reported' = IF Len(files) = 0
                           THEN Say("Please upload at least one file")
                           ELSE reported
            /\ UNCHANGED <<idx, text_content, result>>
       ELSE /\ idx' = idx + 1
            /\ IF Cached(idx + 1)
               THEN /\ text_content' = CacheEntry(idx + 1).text
                    /\ result' = CacheEntry(idx + 1).result
                    /\ reported' = reported
                    /\ ppc' = "app_display"
               ELSE IF files[idx + 1].kind = "pdf"
               THEN /\ ppc' = "app_pdf"
                    /\ UNCHANGED <<text_content, result, reported>>
               ELSE IF files[idx + 1].kind = "txt"
               THEN /\ ppc' = "app_txt"
                    /\ UNCHANGED <<text_content, result, reported>>
               ELSE /\ reported' = Append(reported,
                                     [msg |-> "Unsupported file type",
                                      file |-> idx + 1])
                    /\ ppc' = "app_loop"
                    /\ UNCHANGED <<text_content, result>>
    /\ UNCHANGED <<entry, files, handed, pagesRead, ocrCalls, session_state,
                   reruns, cvars, ovars, tvars>>

\* lines 43-47 had they caught the exception of fitz and gone on with no text
AppExtractPdf_swallowed ==
    /\ entry = "app"
    /\ ppc = "app_pdf"
    /\ IF files[idx].corrupt
       THEN /\ reported' = reported
            /\ text_content' = EmptyText
            /\ ppc' = "app_classify"
            /\ UNCHANGED pagesRead
       ELSE LET first5 == extract_first_n_pages(OpenPdf(idx), APP_PAGES)
            IN  /\ text_content' = pdf_to_text(first5, APP_PAGES)
                /\ pagesRead' = pagesRead \cup PagesTouched(first5, APP_PAGES)
                /\ reported' = reported
                /\ ppc' = "app_classify"
    /\ UNCHANGED <<entry, files, idx, result, handed, ocrCalls,
                   session_state, reruns, cvars, ovars, tvars>>

\* lines 43-47: the first 5 pages and their text; an exception of fitz is
\* not caught and ends the script run
AppExtractPdf ==
    /\ entry = "app"
    /\ ppc = "app_pdf"
    /\ IF files[idx].corrupt
       THEN /\ reported' = Say("Exception: extract_first_n_pages")
            /\ ppc' = "crashed"
            /\ UNCHANGED <<text_content, pagesRead>>
       ELSE LET first5 == extract_first_n_pages(OpenPdf(idx), APP_PAGES)
            IN  /\ text_content' = pdf_to_text(first5, APP_PAGES)
                /\ pagesRead' = pagesRead \cup PagesTouched(first5, APP_PAGES)
                /\ reported' = reported
                /\ ppc' = "app_classify"
    /\ UNCHANGED <<entry, files, idx, result, handed, ocrCalls,
                   session_state, reruns, cvars, ovars, tvars>>

\* lines 48-49: the whole text of the uploaded text file
AppExtractTxt ==
    /\ entry = "app"
    /\ ppc = "app_txt"
    /\ text_content' = read_text(files[idx])
    /\ ppc' = "app_classify"
    /\ UNCHANGED <<entry, files, idx, result, handed, pagesRead, ocrCalls,
                   reported, session_state, reruns, cvars, ovars, tvars>>

\* lines 54-63: classify; store text and result, or show the error and
\* continue with the next file
AppClassify ==
    /\ entry = "app"
    /\ ppc = "app_classify"
    /\ handed' = Hand(text_content)
    /\ \E r \in PipelineResponses :
        IF classify_context(r).kind = "return"
        THEN /\ result' = classify_context(r)
             /\ session_state' =
                    {e \in session_state : e.key # file_key(idx)} \cup
                    {[key |-> file_key(idx), text |-> text_content,
                      result |-> classify_context(r)]}
             /\ reported' = reported
             /\ ppc' = "app_display"
        ELSE /\ reported' = Say("Error analyzing")
             /\ ppc' = "app_loop"
             /\ UNCHANGED <<result, session_state>>
    /\ UNCHANGED <<entry, files, idx, text_content, pagesRead, ocrCalls,
                   reruns, cvars, ovars, tvars>>

\* lines 68-168: show the preview and the result; then line 143 reads
\* selected_cat
AppDisplay ==
    /\ entry = "app"
    /\ ppc = "app_display"
    /\ IF selected_cat_bound
       THEN /\ reported' = Say("Classification Results")
            /\ ppc' = "app_loop"
       ELSE /\ reported' = Append(Say("Classification Results"),
                                  [msg |-> "NameError: selected_cat",
                                   file |-> idx])
            /\ ppc' = "crashed"
    /\ UNCHANGED <<entry, files, idx, text_content, result, handed,
                   pagesRead, ocrCalls, session_state, reruns, cvars, ovars, tvars>>

\* a widget interaction makes Streamlit run the script again from the top;
\* st.session_state (line 41) is all that survives
AppRerun ==
    /\ entry = "app"
    /\ ppc \in {"done", "crashed"}
    /\ reruns < MaxReruns
    /\ reruns' = reruns + 1
    /\ idx' = 0
    /\ text_content' = EmptyText
    /\ result' = Pending
    /\ ppc' = "app_loop"
    /\ UNCHANGED <<entry, files, handed, pagesRead, ocrCalls, reported,
                   session_state, cvars, ovars, tvars>>

---------------------------------------------------------------------------
(* scripts/classify_context.py, lines 22-46: the taxonomy is loaded when   *)
(* the module is imported.  definitions.json is [state, keys,              *)
(* subcategories, subcategory_definitions]: whether the file is there and  *)
(* is JSON, the top-level keys it has, the subcategories it lists under    *)
(* each category, and the subcategories it gives a definition for.         *)

ConfigKeys == {"context_types", "subcategories", "subcategory_definitions"}
\* the subcategory names a definitions.json may list under a category
ListedNames == {"Complaint", "Trust Agreement", "other"}
\* the categories whose lists vary from one definitions.json to another
VariedCategories == {"Contract", "Litigation", "other"}
\* the category names a definitions.json may have lists for
CategoryLists ==
    {Category, Category \ {"Email"}, Category \ {"other"},
     Category \cup {"Memo"}}

MissingFile ==
    [state |-> "missing", keys |-> {}, subcategories |-> <<>>,
     subcategory_definitions |-> {}]
MalformedFile ==
    [state |-> "malformed", keys |-> {}, subcategories |-> <<>>,
     subcategory_definitions |-> {}]
\* every subcategory some category of the file lists
listed_subcategories(subs) == UNION {subs[c] : c \in DOMAIN subs}
\* the lists of a file: those of VariedCategories as chosen, the others as
\* in SUBCATEGORIES
SubcategoryLists ==
    {[c \in cats |-> IF c \in VariedCategories THEN varied[c]
                     ELSE IF c \in DOMAIN SUBCATEGORIES
                          THEN Range(SUBCATEGORIES[c])
                          ELSE {"Note"}] :
        cats \in CategoryLists,
        varied \in [VariedCategories -> SUBSET ListedNames]}
JsonFiles ==
    {[state |-> "ok", keys |-> k, subcategories |-> subs,
      subcategory_definitions |-> listed_subcategories(subs) \cup extra] :
        k \in {ConfigKeys} \cup {ConfigKeys \ {key} : key \in ConfigKeys},
        subs \in SubcategoryLists,
        extra \in {{}, {"Deposition"}}}
DefinitionFiles == {MissingFile, MalformedFile} \cup JsonFiles

NotImported == [kind |-> "pending", error |-> "", cats |-> {}, pairs |-> {}]
ImportError(error) ==
    [kind |-> "raise", error |-> error, cats |-> {}, pairs |-> {}]
\* lines 34-37: one Enum per category of the file; its values are the names
\* the file lists under the category (its member names are these without
\* their spaces, which no two names of ListedNames share)
Imported(subs) ==
    [kind |-> "loaded", error |-> "", cats |-> DOMAIN subs,
     pairs |-> UNION {{<<c, s>> : s \in subs[c]} : c \in DOMAIN subs}]

\* lines 22-46 as a function of the file
load_definitions(f) ==
    IF f.state = "missing" THEN ImportError("FileNotFoundError")
    ELSE IF f.state = "malformed" THEN ImportError("JSONDecodeError")
    ELSE IF ~(ConfigKeys \subseteq f.keys) THEN ImportError("KeyError")
    ELSE IF ~(Category \subseteq DOMAIN f.subcategories)
         THEN ImportError("KeyError")
    ELSE Imported(f.subcategories)

\* the import of scripts/classify_context.py
ImportModule ==
    /\ imported = NotImported
    /\ imported' = load_definitions(definitions_json)
    /\ UNCHANGED <<definitions_json, cvars, pvars, ovars>>

\* the module is not being imported
TIdle ==
    /\ definitions_json = MissingFile
    /\ imported = NotImported

---------------------------------------------------------------------------
(* One run of an entry point on some input.                                *)

CIdle ==
    /\ pc = "idle"
    /\ content = NoContent
    /\ data = NoData
    /\ repaired = FALSE
    /\ outcome = Pending
    /\ modelCalls = 0

\* uploaded_files: up to MaxFiles files, two of which may have one name or
\* names that differ in the case of the extension only (the first is named
\* a.txt or a.pdf: which name is which makes no difference)
Uploads ==
    {u \in UNION {[1..n -> {Named(d, nm) : d \in AppDocs, nm \in UploadNames}] :
                     n \in 0..MaxFiles} :
        Len(u) = 0 \/ (u[1].base = "a" /\ ~u[1].upper)}

PipelineInit ==
    /\ CIdle
    /\ idx = 0
    /\ text_content = EmptyText
    /\ result = Pending
    /\ handed = <<>>
    /\ pagesRead = {}
    /\ ocrCalls = <<>>
    /\ reported = <<>>
    /\ session_state = {}
    /\ reruns = 0
    /\ NoCall
    /\ TIdle
    /\ \/ /\ entry = "cli"
          /\ ppc = "start"
          /\ files \in {<<>>} \cup {<<d>> : d \in CliDocs}
          /\ json_out \in LeftFolders
          /\ img_out = json_out
       \/ /\ entry = "classify_context"
          /\ ppc = "start"
          /\ files \in {<<>>} \cup {<<d>> : d \in ClassifyDocs}
          /\ img_out = NoFolder
          /\ json_out = NoFolder
       \/ /\ entry = "app"
          /\ ppc = "app_loop"
          /\ files \in Uploads
          /\ img_out = NoFolder
          /\ json_out = NoFolder

PipelineNext ==
    \/ CliStart \/ CliTxtExtract \/ CliTxtClassify \/ CliPdf
    \/ ClassifyMainRead \/ ClassifyMainClassify
    \/ AppNextFile \/ AppExtractPdf \/ AppExtractTxt \/ AppClassify
    \/ AppDisplay \/ AppRerun

PipelineSpec == PipelineInit /\ [][PipelineNext]_vars

---------------------------------------------------------------------------
(* One call of classify_context on some model response.                    *)

PIdle ==
    /\ entry = "none"
    /\ ppc = "idle"
    /\ files = <<>>
    /\ idx = 0
    /\ text_content = EmptyText
    /\ result = Pending
    /\ handed = <<>>
    /\ pagesRead = {}
    /\ ocrCalls = <<>>
    /\ reported = <<>>
    /\ session_state = {}
    /\ reruns = 0

Init ==
    /\ pc = "start"
    /\ content = NoContent
    /\ data = NoData
    /\ repaired = FALSE
    /\ outcome = Pending
    /\ modelCalls = 0
    /\ PIdle
    /\ OIdle
    /\ TIdle

Next == CallModel \/ Validate \/ Load \/ Route

Spec == Init /\ [][Next]_vars

---------------------------------------------------------------------------
(* Calls of ocr_pdf_to_text in one working directory: by one process, one  *)
(* call after the other, and by two processes, one call each, their steps  *)
(* interleaved.                                                            *)

OcrInit(calls) ==
    /\ CIdle
    /\ PIdle
    /\ TIdle
    /\ opc = [w \in Workers |-> "idle"]
    /\ job = [w \in Workers |-> NoJob]
    /\ nextPage = [w \in Workers |-> 1]
    /\ nextRes = [w \in Workers |-> 1]
    /\ listing = [w \in Workers |-> <<>>]
    /\ todo = calls
    /\ made = [w \in Workers |-> {}]
    /\ ocr_text = [w \in Workers |-> <<>>]
    /\ pages_folders = {}
    /\ img_out = NoFolder
    /\ json_out = NoFolder

OcrNext ==
    \E w \in Workers :
        \/ OcrCall(w) \/ pdf_to_images(w) \/ PaddleOCR(w)
        \/ makedirs_img_out(w) \/ makedirs_json_out(w)
        \/ predict(w) \/ save_to_img(w) \/ save_to_json(w)
        \/ glob(w) \/ open(w)
        \/ rmtree_pages(w)
        \/ rmtree_img_out(w) \/ unlink_img_out(w) \/ rmdir_img_out(w)
        \/ rmtree_json_out(w) \/ unlink_json_out(w) \/ rmdir_json_out(w)

SequentialCalls == [w \in Workers |-> IF w = 1 THEN MaxCalls ELSE 0]
ConcurrentCalls == [w \in Workers |-> 1]

OcrSpec == OcrInit(SequentialCalls) /\ [][OcrNext]_vars

ConcurrentOcrSpec == OcrInit(ConcurrentCalls) /\ [][OcrNext]_vars

---------------------------------------------------------------------------
(* One import of scripts/classify_context.py, whatever definitions.json    *)
(* holds.                                                                  *)

TaxonomyInit ==
    /\ CIdle
    /\ PIdle
    /\ OIdle
    /\ definitions_json \in DefinitionFiles
    /\ imported = NotImported

TaxonomyNext == ImportModule

TaxonomySpec == TaxonomyInit /\ [][TaxonomyNext]_vars

---------------------------------------------------------------------------
(* What the response in flight carries.                                    *)

RespCat    == Get(content.members, "category", Absent)
RespSub    == Get(content.members, "subcategory", Absent)
RespSum    == Get(content.members, "summary", Absent)
RespThemes == Get(content.members, "key_themes", Absent)

\* the subcategory is listed under the category in the taxonomy
Listed(cat, sub) ==
    /\ cat \in DOMAIN SUBCATEGORIES
    /\ \E i \in DOMAIN SUBCATEGORIES[cat] : SUBCATEGORIES[cat][i] = sub

\* the response carries a pair of strings the taxonomy lists
RespPairValid ==
    /\ RespCat.t = "str"
    /\ RespSub.t = "str"
    /\ Listed(RespCat.s, RespSub.s)

\* the response has the shape of a ClassificationResult: a string (or null,
\* or missing) for category and subcategory, a string summary and a list
\* of exactly three strings
RespShaped ==
    /\ content.top = "object"
    /\ RespCat.t \in {"str", "null", "absent"}
    /\ RespSub.t \in {"str", "null", "absent"}
    /\ RespSum.t = "str"
    /\ RespThemes.t = "list"
    /\ Len(RespThemes.l) = 3
    /\ \A i \in DOMAIN RespThemes.l : RespThemes.l[i].t = "str"

\* the response parses as JSON, directly or after the repair
RespParses == WellFormed(content) \/ WellFormed(repair(content))

Done == pc = "done"

---------------------------------------------------------------------------
\* C1: every result classify_context returns has a subcategory that the
\* taxonomy lists under the result's category, the catch-all result for an
\* invalid pair included.
C1_SubcategoryBelongsToCategory ==
    outcome.kind = "return" =>
        Listed(outcome.result.category, outcome.result.subcategory)

\* C1 witness: an invalid pair was replaced by other/other.
C1_Witness ==
    /\ Done
    /\ outcome.kind = "return"
    /\ outcome.via = "catchall"
    /\ RespCat = JStr("Bogus")
    /\ outcome.result.category = "other"
    /\ outcome.result.subcategory = "other"

\* C2 as claimed: the catch-all is substituted only after a second request
\* has been made and has failed validation too.
C2_CatchAllOnlyAfterRetry ==
    (outcome.kind = "return" /\ outcome.via = "catchall") => modelCalls = 2

\* C3: when the catch-all is substituted, the result's key_themes are the
\* response's key themes in the same order and its summary is the
\* response's summary (the empty string when the response has none).
C3_FallbackPreservesSummaryAndThemes ==
    (outcome.kind = "return" /\ outcome.via = "catchall") =>
        /\ RespThemes.t = "list"
        /\ Len(outcome.result.key_themes) = Len(RespThemes.l)
        /\ \A i \in DOMAIN RespThemes.l :
                /\ RespThemes.l[i].t = "str"
                /\ outcome.result.key_themes[i] = RespThemes.l[i].s
        /\ RespSum.t = "str" => outcome.result.summary = RespSum.s
        /\ RespSum.t # "str" =>
                (RespSum = Absent /\ outcome.result.summary = "")

\* C3 witness: a catch-all result that carries the response's summary and
\* its three themes.
C3_Witness ==
    /\ Done
    /\ outcome.via = "catchall"
    /\ RespSum = JStr("A summary.")
    /\ outcome.result.summary = "A summary."
    /\ outcome.result.key_themes = <<Themes[1], Themes[2], Themes[3]>>

\* C4: every returned result has exactly three key themes, on both paths,
\* and a response whose key themes are not exactly three is never returned.
C4_ExactlyThreeKeyThemes ==
    outcome.kind = "return" =>
        /\ Len(outcome.result.key_themes) = 3
        /\ RespThemes.t = "list"
        /\ Len(RespThemes.l) = 3

\* C4 witness: a response with four key themes and an invalid pair reached
\* the catch-all constructor and was refused.
C4_Witness ==
    /\ Done
    /\ RespThemes.t = "list"
    /\ Len(RespThemes.l) = 4
    /\ ~RespPairValid
    /\ outcome.kind = "raise"
    /\ outcome.error = "ValidationError"

\* C5 as claimed, for responses that have the ClassificationResult shape:
\* a response that parses as a JSON object, directly or after repair,
\* gets a result and never an error.
C5_ParsedResponseGetsResult ==
    (Done /\ RespParses /\ RespShaped) => outcome.kind = "return"

\* C6 as claimed, for responses that have the ClassificationResult shape:
\* malformed text that parses after the repair gets a result, the model's
\* own pair when it is valid and the catch-all otherwise; text that still
\* does not parse raises.
C6_RepairedResponseIsValidated ==
    (Done /\ ~WellFormed(content) /\ RespShaped) =>
        IF WellFormed(repair(content))
        THEN /\ outcome.kind = "return"
             /\ IF RespPairValid
                THEN /\ outcome.result.category = RespCat.s
                     /\ outcome.result.subcategory = RespSub.s
                ELSE /\ outcome.result.category = "other"
                     /\ outcome.result.subcategory = "other"
        ELSE outcome.kind = "raise"

\* C7 as claimed: a response that parses and has a string summary and 3
\* key themes is returned with its own pair when the taxonomy lists the
\* subcategory under the category; one whose subcategory is listed only
\* under a different category is rejected (its pair is not returned).
C7_ListedPairsAcceptedOthersRejected ==
    (Done /\ RespParses /\ RespShaped
          /\ RespCat.t = "str" /\ RespSub.t = "str") =>
        /\ Listed(RespCat.s, RespSub.s) =>
                /\ outcome.kind = "return"
                /\ outcome.result.category = RespCat.s
                /\ outcome.result.subcategory = RespSub.s
        /\ (/\ ~Listed(RespCat.s, RespSub.s)
            /\ \E other \in DOMAIN SUBCATEGORIES : Listed(other, RespSub.s)) =>
                ~(/\ outcome.kind = "return"
                  /\ outcome.result.category = RespCat.s
                  /\ outcome.result.subcategory = RespSub.s)

---------------------------------------------------------------------------
(* What an entry point is expected to extract.                             *)

\* the page limit of the running entry point
PageLimit == IF entry = "cli" THEN CLI_PAGES ELSE APP_PAGES

IsPdf(f) ==
    files[f].kind = "pdf" /\ files[f].exists /\ ~files[f].corrupt

IsTxt(f) == files[f].kind = "txt" /\ files[f].exists

\* the page window of file f
Window(f) == extract_first_n_pages(OpenPdf(f), PageLimit)

\* the text of the first min(p, N) pages of file f, in page order, joined
\* with a blank line
DirectText(f) ==
    Text([g \in 1..Min(files[f].pages, PageLimit) |->
            Run(PageWord(g, 1), files[f].perPage, SP)], BL)

\* the pages of file f whose text was read
PagesReadOf(f) == {g \in 1..MaxPages : <<f, g>> \in pagesRead}

\* the number of ocr_pdf_to_text calls for file f
OcrCount(f) == Cardinality({i \in DOMAIN ocrCalls : ocrCalls[i] = f})

\* extraction of file f is over: the command-line run has ended, or the
\* app has reached the file's classification
ExtractionOver(f) ==
    \/ entry = "cli" /\ idx = f /\ ppc \in {"exited", "crashed"}
    \/ entry = "app" /\ idx = f /\ ppc = "app_classify"

\* C8 as claimed: in both entry points the text handed to the classifier
\* for a text file of w words holds exactly its first min(w, 3000) words,
\* in order.
C8_TextCappedAt3000Words ==
    \A i \in DOMAIN handed :
        IsTxt(handed[i].file) =>
            LET d == files[handed[i].file]
            IN  /\ len(split(handed[i].text)) = Min(d.words, WORD_LIMIT)
                /\ split(handed[i].text)
                        = slice(split(read_text(d)), WORD_LIMIT)

\* C9 as claimed: once extraction of a PDF of p pages is over, text has
\* been read from exactly its first min(p, N) pages and the directly
\* extracted text is their texts in page order joined with a blank line;
\* no page beyond the N-th is ever read, by get_text or by the recognizer.
C9_FirstNPagesExtracted ==
    /\ \A x \in pagesRead : x[2] <= PageLimit
    /\ \A f \in DOMAIN files :
        (IsPdf(f) /\ ExtractionOver(f)) =>
            /\ PagesReadOf(f) = 1..Min(files[f].pages, PageLimit)
            /\ OcrCount(f) = 0 => text_content = DirectText(f)

\* C10 as claimed: for a PDF handed to the classifier, direct text of
\* fewer than 100 words means one ocr_pdf_to_text call and the recognized
\* text handed over; 100 words or more means no such call; never two.
C10_OcrFallbackOnceWhenLowYield ==
    /\ \A f \in DOMAIN files : OcrCount(f) <= 1
    /\ \A i \in DOMAIN handed :
        IsPdf(handed[i].file) =>
            LET f == handed[i].file
            IN  IF len(split(DirectText(f))) < OCR_THRESHOLD
                THEN /\ OcrCount(f) = 1
                     /\ \E regs \in 1..MaxRegions :
                           handed[i].text
                               = ocr_pdf_to_text(Window(f), regs, NoFolder)
                ELSE /\ OcrCount(f) = 0
                     /\ handed[i].text = DirectText(f)

---------------------------------------------------------------------------
(* Claims about failures in the entry points.                              *)

\* what was printed or shown about file f
ReportedFor(f) == {reported[i].msg : i \in {j \in DOMAIN reported :
                                              reported[j].file = f}}
\* classify_context was called for file f
ClassifierInvoked(f) == \E i \in DOMAIN handed : handed[i].file = f
\* the run of the app's script is over
AppRunOver == entry = "app" /\ ppc \in {"done", "crashed"}
\* the command-line run is over
CliRunOver == entry = "cli" /\ ppc \in {"exited", "crashed"}
\* file f was classified and shown, or reported as failed or unsupported
ShownOrReportedFailed(f) ==
    ReportedFor(f) \cap {"Classification Results", "Error analyzing",
                         "Exception: extract_first_n_pages",
                         "Unsupported file type"} # {}

\* C13: when a run of the app's script is over, every uploaded file was
\* either classified and displayed or reported as failed, whatever happened
\* to the other files.
C13_EveryUploadedFileShownOrReportedFailed ==
    AppRunOver => \A f \in DOMAIN files : ShownOrReportedFailed(f)

\* extraction raises for file f: fitz cannot open its bytes, (main.py) the
\* page window is built from a name that is not bound, or (command lines)
\* a text file holds bytes that are not UTF-8
ExtractionRaises(f) ==
    /\ files[f].exists
    /\ \/ /\ files[f].kind = "pdf"
          /\ entry \in {"cli", "app"}
          /\ files[f].corrupt \/ (entry = "cli" /\ ~pdf_bytes_bound)
       \/ /\ files[f].kind = "txt"
          /\ entry \in {"cli", "classify_context"}
          /\ files[f].corrupt
\* the entry point is past the extraction of file f
ExtractionTried(f) ==
    /\ idx = f
    /\ ppc \notin {"start", "cli_pdf", "cli_txt", "app_pdf"}
ExtractionFailureReported(f) ==
    ReportedFor(f) \cap {"NameError: pdf_bytes",
                         "Exception: extract_first_n_pages",
                         "Exception: ocr_pdf_to_text",
                         "PDF text extraction failed",
                         "UnicodeDecodeError", "Error reading"} # {}

\* C15: in both entry points, when extraction raises for a document, the
\* failure is reported once the entry point is past the extraction, and
\* classify_context is never called for that document.
C15_ExtractionFailureReportedAndNotClassified ==
    \A f \in DOMAIN files :
        ExtractionRaises(f) =>
            /\ ~ClassifierInvoked(f)
            /\ ExtractionTried(f) => ExtractionFailureReported(f)

C15_Witness ==
    /\ entry = "app"
    /\ Len(files) = 2
    /\ ExtractionRaises(2)
    /\ ExtractionTried(2)
    /\ ExtractionFailureReported(2)
    /\ ~ClassifierInvoked(2)

\* C17: when the command-line run on an existing PDF that fitz can read is
\* over, the pages of its first-15-pages window were read and
\* classify_context was called for it; when the run on an existing text
\* file is over, classify_context was called for it.
C17_CliInvokesClassifier ==
    CliRunOver /\ Len(files) = 1 =>
        /\ IsPdf(1) => /\ PagesReadOf(1) = 1..Min(files[1].pages, CLI_PAGES)
                       /\ ClassifierInvoked(1)
        /\ IsTxt(1) /\ ~files[1].corrupt => ClassifierInvoked(1)

---------------------------------------------------------------------------
(* Claims about ocr_pdf_to_text.                                           *)

\* the call of worker w is over
CallEnded(w) == opc[w] \in {"returned", "raised"}
\* a folder the call of worker w made is (still) there
FolderExists(folder, w) ==
    CASE folder = "pages"      -> job[w].doc \in pages_folders
      [] folder = "ocr_images" -> img_out.exists
      [] folder = "ocr_json"   -> json_out.exists

\* C11: once a call of ocr_pdf_to_text with cleanup enabled is over, whether
\* it returned or raised, none of the folders it made (<base>_pages,
\* ocr_images, ocr_json) exists any more.
C11_NoArtifactLeftAfterCall ==
    \A w \in Workers :
        CallEnded(w) /\ job[w].cleanup =>
            \A folder \in made[w] : ~FolderExists(folder, w)

\* C12: of two calls of ocr_pdf_to_text that run at the same time on
\* different documents, each returns the text it returns when it runs alone.
C12_ConcurrentCallReturnsTextOfCallAlone ==
    \A w \in Workers :
        opc[w] = "returned" =>
            ocr_text[w] = ocr_text_alone(job[w].doc, job[w].pages,
                                         job[w].regs)

\* C16: over calls of ocr_pdf_to_text made one after the other in one
\* working directory, the text a call returns holds recognition results of
\* pages of the document of that call only, in page order.
C16_TextOnlyFromPagesOfOwnDocument ==
    \A w \in Workers :
        opc[w] = "returned" =>
            /\ \A i \in DOMAIN ocr_text[w] : ocr_text[w][i].doc = job[w].doc
            /\ \A i, j \in DOMAIN ocr_text[w] :
                  i < j => ocr_text[w][i].page <= ocr_text[w][j].page

---------------------------------------------------------------------------
(* Claims about the taxonomy load.                                         *)

\* the categories of the file that list the subcategory
CategoriesOf(f, s) == {c \in DOMAIN f.subcategories : s \in f.subcategories[c]}
\* the import has returned or raised
ImportOver == imported.kind # "pending"

\* C14: the taxonomy load fails when definitions.json is missing, is
\* malformed or does not attach every subcategory to exactly one category;
\* when it succeeds, every subcategory of the loaded taxonomy belongs to
\* exactly one category and the pair other/other is there.
C14_LoadFailsUnlessEverySubcategoryInOneCategory ==
    LET f == definitions_json
        valid ==
            /\ f.state = "ok"
            /\ ConfigKeys \subseteq f.keys
            /\ Category \subseteq DOMAIN f.subcategories
            /\ \A s \in f.subcategory_definitions :
                  Cardinality(CategoriesOf(f, s)) = 1
            /\ "other" \in f.subcategories["other"]
    IN  ImportOver =>
            /\ ~valid => imported.kind = "raise"
            /\ imported.kind = "loaded" =>
                  /\ \A p, q \in imported.pairs : p[2] = q[2] => p[1] = q[1]
                  /\ <<"other", "other">> \in imported.pairs

=============================================================================
